---- MODULE Spec2Model ----
(***************************************************************************)
(* Model of the Pokemon Center stock monitor (src/stock_monitor.py):       *)
(*   - check_stock's button classifier over pages of <button> elements,    *)
(*   - send_notification's e-mail path with its console fallback,          *)
(*   - monitor()'s polling loop, load_config() and main().                 *)
(***************************************************************************)
EXTENDS Integers, Sequences, FiniteSets, TLC

VARIABLES
    env,            \* the process environment read by load_config (os.getenv)
    bs4_legacy,     \* TRUE: the installed BeautifulSoup matches {'attr': ''} against a missing attribute
    pc,             \* position of the single thread of control
    config,         \* value returned by load_config(): a 2-tuple or a 3-tuple; <<>> before it runs
    email_config,   \* PokemonStockMonitor.email_config
    check_interval, \* monitor()'s check_interval argument
    page,           \* the markup last handed to the classifier
    result,         \* last return value of check_stock()
    outcome,        \* how the last tick ended
    ticks,          \* iterations of monitor()'s loop started so far
    gets,           \* number of requests.get calls so far
    sleeps,         \* number of completed time.sleep calls so far
    sleeps_since_get, \* completed time.sleep calls since the last requests.get
    last_sleep,     \* argument of the last completed time.sleep call, <<>> before any
    instock_ticks,  \* ticks whose fetch succeeded and whose page classifies as in stock
    notifications,  \* number of send_notification invocations
    note,           \* what the last send_notification invocation did
    smtp,           \* SMTP calls made so far, in order
    emails_sent,    \* messages handed over by server.send_message
    console_alerts, \* STOCK ALERT lines printed by send_notification
    stop_logged,    \* "Monitoring stopped by user" has been logged
    escaped         \* the exception that left monitor() or main(), or "none"

vars == <<env, bs4_legacy, pc, config, email_config, check_interval, page, result,
          outcome, ticks, gets, sleeps, sleeps_since_get, last_sleep, instock_ticks,
          notifications, note, smtp, emails_sent, console_alerts, stop_logged, escaped>>

-----------------------------------------------------------------------------
(* Bounds of the model *)

\* Most <button> elements on a page drawn for the classifier
MaxButtons == 2
\* Most requests.get calls in one run of monitor()
MaxTicks == 3

-----------------------------------------------------------------------------
(* Markup: a page is the sequence of its <button> elements in document      *)
(* order.  A button carries the attributes the classifier reads.            *)

Absent == "<absent>"        \* attrs.get(name) is None
NoString == <<"<None>">>    \* Tag.string is None

\* Substrings the class lambdas look for (lines 37 and 49)
CartTok == "add-to-cart-button--PZmQF"
SecondaryTok == "btn-secondary--mtUol"
DisabledTok == "disabled--vkECP"
ClassToks == {CartTok, SecondaryTok, DisabledTok}

\* Text nodes are sequences of words; WS is a run of whitespace
WS == " "
AddToCart == "Add to Cart"
Unavailable == "Unavailable"
OtherText == "Notify Me"

\* The child text nodes a button may hold
Contents ==
    { <<>>,
      << <<AddToCart>> >>,
      << <<WS, AddToCart, WS>> >>,
      << <<WS>>, <<AddToCart>> >>,
      << <<Unavailable>> >>,
      << <<WS, Unavailable>> >>,
      << <<OtherText>> >> }

TypeValues == {Absent, "button", "submit"}
DisabledValues == {Absent, "", "disabled"}

\* cls: the lambda's substrings found in the class attribute (empty when the
\* attribute is missing, where the lambda receives None)
Buttons == [cls: SUBSET ClassToks, type: TypeValues, disabled: DisabledValues,
            children: Contents]

\* The pages of at most n buttons
PagesUpTo(n) == UNION {[1..k -> Buttons] : k \in 0..n}

-----------------------------------------------------------------------------
(* BeautifulSoup primitives used by check_stock *)

\* Tag.get_text(): every descendant string, concatenated
RECURSIVE Concat(_)
Concat(nodes) ==
    IF nodes = <<>> THEN <<>> ELSE Head(nodes) \o Concat(Tail(nodes))

get_text(b) == Concat(b.children)

\* str.strip(): leading and trailing whitespace removed
RECURSIVE LStrip(_)
LStrip(s) ==
    IF s # <<>> /\ Head(s) = WS THEN LStrip(Tail(s)) ELSE s

RECURSIVE RStrip(_)
RStrip(s) ==
    IF s # <<>> /\ s[Len(s)] = WS THEN RStrip(SubSeq(s, 1, Len(s) - 1)) ELSE s

strip(s) == RStrip(LStrip(s))

\* Tag.string: the single child string, None with no child or several
TagString(b) ==
    IF Len(b.children) = 1 THEN b.children[1] ELSE NoString

\* SoupStrainer matching of one attribute against a plain string: equality;
\* a missing attribute matches a falsy pattern in the legacy matcher only
AttrMatches(value, want, legacy) ==
    IF value = Absent THEN legacy /\ want = ""
    ELSE value = want

\* Tag.get(name) used as a condition: None and '' are both falsy
Truthy(value) == value # Absent /\ value # ""

\* soup.find: of the positions that match, the first in document order;
\* 0 for None
FirstMatch(hits) ==
    IF hits = {} THEN 0 ELSE CHOOSE i \in hits : \A j \in hits : i <= j

-----------------------------------------------------------------------------
(* check_stock's classification of a fetched page (lines 32-67) *)

\* line 36-39
InStockPattern(b, legacy) ==
    /\ CartTok \in b.cls /\ SecondaryTok \in b.cls
    /\ AttrMatches(b.type, "button", legacy)

\* line 48-51
OutOfStockPattern(b, legacy) ==
    /\ CartTok \in b.cls /\ DisabledTok \in b.cls
    /\ AttrMatches(b.disabled, "", legacy)

\* line 54
UnavailablePattern(b, legacy) ==
    /\ AttrMatches(b.disabled, "", legacy)
    /\ TagString(b) = <<Unavailable>>

\* line 61
FallbackPattern(b) == TagString(b) = <<AddToCart>>

\* line 62
FallbackAccepts(b) == ~Truthy(b.disabled)

Classify(pg, legacy) ==
    LET in_stock_button ==
            FirstMatch({i \in 1..Len(pg) : InStockPattern(pg[i], legacy)})
        out_of_stock_button ==
            FirstMatch({i \in 1..Len(pg) : OutOfStockPattern(pg[i], legacy)})
        unavailable_button ==
            FirstMatch({i \in 1..Len(pg) : UnavailablePattern(pg[i], legacy)})
        fallback_cart_button ==
            FirstMatch({i \in 1..Len(pg) : FallbackPattern(pg[i])})
    IN  IF in_stock_button # 0 /\ strip(get_text(pg[in_stock_button])) = <<AddToCart>>
        THEN [in_stock |-> TRUE, reason |-> "in-stock-primary"]
        ELSE IF out_of_stock_button # 0 \/ unavailable_button # 0
        THEN [in_stock |-> FALSE, reason |-> "out-of-stock-primary"]
        ELSE IF fallback_cart_button # 0 /\ FallbackAccepts(pg[fallback_cart_button])
        THEN [in_stock |-> TRUE, reason |-> "in-stock-fallback"]
        ELSE [in_stock |-> FALSE, reason |-> "unknown"]

-----------------------------------------------------------------------------
(* The process environment and load_config() (lines 145-197).  An           *)
(* environment value is a string, kept as the sequence of its characters.   *)

Unset == <<"<unset>">>      \* os.getenv(name) is None; a dict key that is missing
NoneVal == "<None>"         \* Python's None as a tuple element

\* not os.getenv(var): None and '' are falsy
Missing(v) == v = Unset \/ v = <<>>

\* os.getenv(name, default)
GetEnv(e, name, default) == IF e[name] = Unset THEN default ELSE e[name]

\* str.lower() on the letters the environment uses
LowerChar(c) ==
    CASE c = "T" -> "t" [] c = "R" -> "r" [] c = "U" -> "u" [] c = "E" -> "e"
      [] c = "F" -> "f" [] c = "A" -> "a" [] c = "L" -> "l" [] c = "S" -> "s"
      [] OTHER -> c

lower(s) == [i \in 1..Len(s) |-> LowerChar(s[i])]

Digits == <<"0", "1", "2", "3", "4", "5", "6", "7", "8", "9">>
IsDigit(c) == \E i \in 1..Len(Digits) : Digits[i] = c
DigitVal(c) == (CHOOSE i \in 1..Len(Digits) : Digits[i] = c) - 1

RECURSIVE DigitsValue(_)
DigitsValue(s) ==
    IF s = <<>> THEN 0 ELSE 10 * DigitsValue(SubSeq(s, 1, Len(s) - 1)) + DigitVal(s[Len(s)])

\* int(text): surrounding whitespace dropped, an optional sign, then digits;
\* anything else raises ValueError (ok = FALSE)
ParseInt(text) ==
    LET t == strip(text)
        signed == t # <<>> /\ Head(t) \in {"+", "-"}
        body == IF signed THEN Tail(t) ELSE t
        ok == body # <<>> /\ \A i \in 1..Len(body) : IsDigit(body[i])
    IN  IF ~ok THEN [ok |-> FALSE, value |-> 0]
        ELSE [ok |-> TRUE,
              value |-> IF signed /\ Head(t) = "-" THEN 0 - DigitsValue(body)
                        ELSE DigitsValue(body)]

\* The default poll interval, CHECK_INTERVAL's '90' (lines 166 and 168)
DefaultInterval == 90

\* A port value of an email_config: missing key, an int, or some other object
NoPort == [kind |-> "unset", val |-> 0]
IntPort(n) == [kind |-> "int", val |-> n]
BadPort == [kind |-> "str", val |-> 0]

\* email_config = None
NoneConfig ==
    [kind |-> "None", enabled |-> Unset, smtp_server |-> Unset, smtp_port |-> NoPort,
     from_email |-> Unset, password |-> Unset, to_email |-> Unset]

EmailVars == {"SMTP_SERVER", "SMTP_PORT", "FROM_EMAIL", "EMAIL_PASSWORD", "TO_EMAIL"}

\* load_config building the dict without looking for missing variables
LoadEmailConfig_NoMissingCheck(e) ==
    LET email_enabled == lower(GetEnv(e, "EMAIL_NOTIFICATIONS", <<"t", "r", "u", "e">>))
                            = <<"t", "r", "u", "e">>
        port == ParseInt(e["SMTP_PORT"])
    IN  IF ~email_enabled THEN NoneConfig
        ELSE IF ~port.ok THEN NoneConfig
        ELSE [kind |-> "dict", enabled |-> <<"True">>, smtp_server |-> e["SMTP_SERVER"],
              smtp_port |-> IntPort(port.value), from_email |-> e["FROM_EMAIL"],
              password |-> e["EMAIL_PASSWORD"], to_email |-> e["TO_EMAIL"]]

\* lines 171-195
LoadEmailConfig(e) ==
    LET email_enabled == lower(GetEnv(e, "EMAIL_NOTIFICATIONS", <<"t", "r", "u", "e">>))
                            = <<"t", "r", "u", "e">>
        missing_email_vars == {v \in EmailVars : Missing(e[v])}
        port == ParseInt(e["SMTP_PORT"])
    IN  IF ~email_enabled THEN NoneConfig
        ELSE IF missing_email_vars # {} THEN NoneConfig
        ELSE IF ~port.ok THEN NoneConfig
        ELSE [kind |-> "dict", enabled |-> <<"True">>, smtp_server |-> e["SMTP_SERVER"],
              smtp_port |-> IntPort(port.value), from_email |-> e["FROM_EMAIL"],
              password |-> e["EMAIL_PASSWORD"], to_email |-> e["TO_EMAIL"]]

\* lines 164-169
LoadInterval(e) ==
    LET parsed == ParseInt(GetEnv(e, "CHECK_INTERVAL", <<"9", "0">>))
    IN  IF parsed.ok THEN parsed.value ELSE DefaultInterval

\* lines 148-159: the early return when PRODUCT_URL is missing
MissingVars(e) == {v \in {"PRODUCT_URL"} : Missing(e[v])}

load_config(e) ==
    IF MissingVars(e) # {} THEN <<NoneVal, NoneVal>>
    ELSE <<e["PRODUCT_URL"], LoadEmailConfig(e), LoadInterval(e)>>

\* main() testing the tuple itself for None, which it never is
MainReturnsEarly_TupleIsNone(cfg) == FALSE

\* line 205: config[0] is None
MainReturnsEarly(cfg) == cfg[1] = NoneVal

-----------------------------------------------------------------------------
(* send_notification (lines 79-113) *)

SmtpSteps == <<"connect", "starttls", "login", "send_message", "quit">>

\* What the network and the operator do to one SMTP session: the step that
\* does not complete, and whether an exception or an interrupt ends it
Fates ==
    {[step |-> "none", kind |-> "none"]}
        \cup [step : {SmtpSteps[i] : i \in 1..Len(SmtpSteps)}, kind : {"error", "interrupt"}]

\* bool(self.email_config): None and {} are falsy
ConfigTruthy(cfg) ==
    /\ cfg.kind = "dict"
    /\ \/ cfg.enabled # Unset \/ cfg.smtp_server # Unset \/ cfg.smtp_port # NoPort
       \/ cfg.from_email # Unset \/ cfg.password # Unset \/ cfg.to_email # Unset

\* self.email_config.get('enabled', True)
EnabledFlag(cfg) == IF cfg.enabled = Unset THEN TRUE ELSE cfg.enabled = <<"True">>

\* smtplib.SMTP(host, port) can connect only to a port number
PortUsable(port) == port.kind = "int" /\ port.val >= 0 /\ port.val <= 65535

\* line 81: the console-only branch
ConsoleOnly(cfg) == ~ConfigTruthy(cfg) \/ ~EnabledFlag(cfg)

\* lines 85-107: how far the try block gets.  calls: SMTP calls started;
\* completed: SMTP calls that returned; kind: what ended the block
EmailAttempt(cfg, fate) ==
    IF \/ cfg.from_email = Unset \/ cfg.to_email = Unset
       \/ cfg.smtp_server = Unset \/ cfg.smtp_port = NoPort
    THEN [calls |-> 0, completed |-> 0, kind |-> "error"]
    ELSE IF fate.step = "connect" THEN [calls |-> 1, completed |-> 0, kind |-> fate.kind]
    ELSE IF ~PortUsable(cfg.smtp_port) THEN [calls |-> 1, completed |-> 0, kind |-> "error"]
    ELSE IF fate.step = "starttls" THEN [calls |-> 2, completed |-> 1, kind |-> fate.kind]
    ELSE IF cfg.password = Unset THEN [calls |-> 2, completed |-> 2, kind |-> "error"]
    ELSE IF fate.step = "login" THEN [calls |-> 3, completed |-> 2, kind |-> fate.kind]
    ELSE IF fate.step = "send_message" THEN [calls |-> 4, completed |-> 3, kind |-> fate.kind]
    ELSE IF fate.step = "quit" THEN [calls |-> 5, completed |-> 4, kind |-> fate.kind]
    ELSE [calls |-> 5, completed |-> 5, kind |-> "none"]

\* The handler logging the failure without the console fallback
HandlerPrints_LogOnly(kind) == FALSE

\* lines 111-113: except Exception prints the alert; an interrupt is no Exception
HandlerPrints(kind) == kind = "error"

NoNote == [calls |-> <<>>, sent |-> 0, printed |-> 0, raised |-> "none", failed |-> "none"]

send_notification(cfg, fate) ==
    IF ConsoleOnly(cfg)
    THEN [calls |-> <<>>, sent |-> 0, printed |-> 1, raised |-> "none", failed |-> "none"]
    ELSE LET a == EmailAttempt(cfg, fate)
         IN  [calls |-> SubSeq(SmtpSteps, 1, a.calls),
              sent |-> IF a.completed >= 4 THEN 1 ELSE 0,
              printed |-> IF HandlerPrints(a.kind) THEN 1 ELSE 0,
              raised |-> IF a.kind = "interrupt" THEN "KeyboardInterrupt" ELSE "none",
              failed |-> a.kind]

-----------------------------------------------------------------------------
(* check_stock (lines 26-77) *)

\* What one requests.get call meets: a timeout, a connection failure, an
\* operator interrupt, or a response with a status and a body
NoFetch(kind) == [kind |-> kind, status |-> 0, page |-> <<>>, parse_raises |-> FALSE]
Response(status, pg, raises) ==
    [kind |-> "response", status |-> status, page |-> pg, parse_raises |-> raises]

\* line 30: raise_for_status raises HTTPError on 4xx and 5xx
RaiseForStatus(status) == status >= 400 /\ status < 600

\* status_code is None as <<>>, a number n as <<n>>
check_stock(f, legacy) ==
    IF f.kind = "interrupt"
    THEN [raised |-> "KeyboardInterrupt", in_stock |-> FALSE, status_code |-> <<>>,
          reason |-> "none", gets |-> 1]
    ELSE IF f.kind \in {"timeout", "connection"} \/ RaiseForStatus(f.status)
    THEN [raised |-> "none", in_stock |-> FALSE, status_code |-> <<>>,
          reason |-> "check-failed", gets |-> 1]
    ELSE IF f.parse_raises
    THEN [raised |-> "Exception", in_stock |-> FALSE, status_code |-> <<>>,
          reason |-> "none", gets |-> 1]
    ELSE LET v == Classify(f.page, legacy)
         IN  [raised |-> "none", in_stock |-> v.in_stock, status_code |-> <<f.status>>,
              reason |-> v.reason, gets |-> 1]

NoResult ==
    [raised |-> "none", in_stock |-> FALSE, status_code |-> <<>>, reason |-> "none",
     gets |-> 0]

-----------------------------------------------------------------------------
(* monitor (lines 115-143) *)

\* The default of monitor()'s check_interval parameter (line 115)
MonitorDefaultInterval == 300

\* if status_code: None and 0 are falsy
StatusTruthy(sc) == sc # <<>> /\ sc[1] # 0

\* lines 122-134 and the except clauses: what one iteration does with
\* check_stock's return value or exception
TickBranch(res) ==
    IF res.raised = "KeyboardInterrupt" THEN "interrupted"
    ELSE IF res.raised = "Exception" THEN "unexpected"
    ELSE IF StatusTruthy(res.status_code)
    THEN IF res.in_stock THEN "in_stock" ELSE "still_out"
    ELSE "check_failed"

\* The loop without its break: the iteration goes on to the sleep
AfterNotification_NoBreak == "sleep"

\* line 130: break
AfterNotification == "done"

\* The handler without its sleep: the loop retries at once
AfterUnexpected_NoSleep == "check"

\* lines 141-143: except Exception logs and sleeps
AfterUnexpected == "errsleep"

\* time.sleep(secs) raises ValueError for a negative length
SleepRaisesFor(secs) == secs < 0

\* Bookkeeping of one check_stock call
Fetched(f, res) ==
    /\ ticks' = ticks + 1
    /\ gets' = gets + res.gets
    /\ sleeps_since_get' = 0
    /\ page' = f.page
    /\ result' = res
    /\ instock_ticks' =
          instock_ticks +
          (IF /\ f.kind = "response" /\ ~RaiseForStatus(f.status) /\ ~f.parse_raises
              /\ Classify(f.page, bs4_legacy).in_stock
           THEN 1 ELSE 0)

-----------------------------------------------------------------------------
(* Inputs of a run *)

Button(cls, type, disabled, children) ==
    [cls |-> cls, type |-> type, disabled |-> disabled, children |-> children]

\* Pages the product URL serves during a run
PrimaryPage == << Button({CartTok, SecondaryTok}, "button", Absent, << <<AddToCart>> >>) >>
SoldOutPage == << Button({CartTok, DisabledTok}, Absent, "", << <<Unavailable>> >>) >>
FallbackPage == << Button({}, Absent, Absent, << <<AddToCart>> >>) >>
GreyedOutPage == << Button({}, Absent, "", << <<AddToCart>> >>) >>
EmptyPage == <<>>

DriverPages == {PrimaryPage, SoldOutPage, FallbackPage, GreyedOutPage, EmptyPage}

Fetches ==
    {NoFetch("timeout"), NoFetch("connection"), NoFetch("interrupt")}
        \cup {Response(s, EmptyPage, FALSE) : s \in {404, 503}}
        \cup {Response(200, pg, FALSE) : pg \in DriverPages}
        \cup {Response(200, EmptyPage, TRUE)}

EnvNames ==
    {"PRODUCT_URL", "CHECK_INTERVAL", "EMAIL_NOTIFICATIONS", "SMTP_SERVER", "SMTP_PORT",
     "FROM_EMAIL", "EMAIL_PASSWORD", "TO_EMAIL"}

EmptyEnv == [n \in EnvNames |-> Unset]

Envs ==
    [PRODUCT_URL : {Unset, <<>>, <<"u">>},
     CHECK_INTERVAL : {Unset, <<"x">>, <<"0">>, <<"-", "5">>},
     EMAIL_NOTIFICATIONS : {Unset, <<"t", "r", "u", "e">>, <<"T", "r", "u", "e">>,
                            <<"f", "a", "l", "s", "e">>},
     SMTP_SERVER : {Unset, <<"h">>},
     SMTP_PORT : {<<>>, <<" ", "5", "8", "7">>, <<"t", "l", "s">>, <<"9", "9", "9", "9", "9">>},
     FROM_EMAIL : {Unset, <<"f">>},
     EMAIL_PASSWORD : {Unset, <<"p">>},
     TO_EMAIL : {Unset, <<"t">>}]

\* email_config values handed to PokemonStockMonitor directly: None, {} and
\* dicts with missing keys or an unusable port
DirectConfigs ==
    {NoneConfig}
        \cup [kind : {"dict"}, enabled : {Unset, <<"True">>, <<"False">>},
              smtp_server : {Unset, <<"h">>},
              smtp_port : {NoPort, IntPort(587), BadPort},
              from_email : {Unset, <<"f">>}, password : {Unset, <<"p">>},
              to_email : {Unset, <<"t">>}]

DirectIntervals == {MonitorDefaultInterval, 0}

Zeroed ==
    /\ page = <<>>
    /\ result = NoResult
    /\ outcome = "none"
    /\ ticks = 0
    /\ gets = 0
    /\ sleeps = 0
    /\ sleeps_since_get = 0
    /\ last_sleep = <<>>
    /\ instock_ticks = 0
    /\ notifications = 0
    /\ note = NoNote
    /\ smtp = <<>>
    /\ emails_sent = 0
    /\ console_alerts = 0
    /\ stop_logged = FALSE
    /\ escaped = "none"

\* The process is started: main() is about to run
InitMain ==
    /\ env \in Envs
    /\ bs4_legacy \in BOOLEAN
    /\ pc = "main"
    /\ config = <<>>
    /\ email_config = NoneConfig
    /\ check_interval = 0
    /\ Zeroed

\* PokemonStockMonitor(url, email_config).monitor(check_interval) is called
\* without main()
InitDirect ==
    /\ env = EmptyEnv
    /\ bs4_legacy \in BOOLEAN
    /\ pc = "check"
    /\ config = <<>>
    /\ email_config \in DirectConfigs
    /\ check_interval \in DirectIntervals
    /\ Zeroed

Init == InitMain \/ InitDirect

-----------------------------------------------------------------------------
(* main (lines 199-226) *)

Main ==
    /\ pc = "main"
    /\ LET cfg == load_config(env)
       IN  /\ config' = cfg
           /\ IF MainReturnsEarly(cfg)
              THEN /\ pc' = "done"
                   /\ UNCHANGED <<email_config, check_interval, escaped>>
              ELSE IF Len(cfg) # 3
              THEN /\ pc' = "done"
                   /\ escaped' = "ValueError(unpack)"
                   /\ UNCHANGED <<email_config, check_interval>>
              ELSE /\ pc' = "check"
                   /\ email_config' = cfg[2]
                   /\ check_interval' = cfg[3]
                   /\ UNCHANGED escaped
    /\ UNCHANGED <<env, bs4_legacy, page, result, outcome, ticks, gets, sleeps,
                   sleeps_since_get, last_sleep, instock_ticks, notifications, note,
                   smtp, emails_sent, console_alerts, stop_logged>>

-----------------------------------------------------------------------------
(* One iteration of monitor()'s loop up to its sleep, by what check_stock   *)
(* returns or raises                                                         *)

Unnotified == UNCHANGED <<notifications, note, smtp, emails_sent, console_alerts>>
Unslept == UNCHANGED <<sleeps, last_sleep>>
Configured == UNCHANGED <<env, bs4_legacy, config, email_config, check_interval>>

\* lines 126-130: in stock, notify and break
TickInStock ==
    /\ pc = "check" /\ ticks < MaxTicks
    /\ \E f \in Fetches, fate \in Fates :
          LET res == check_stock(f, bs4_legacy)
              n == send_notification(email_config, fate)
          IN  /\ TickBranch(res) = "in_stock"
              /\ Fetched(f, res)
              /\ notifications' = notifications + 1
              /\ note' = n
              /\ smtp' = smtp \o n.calls
              /\ emails_sent' = emails_sent + n.sent
              /\ console_alerts' = console_alerts + n.printed
              /\ outcome' = "in_stock"
              /\ IF n.raised = "KeyboardInterrupt"
                 THEN pc' = "done" /\ stop_logged' = TRUE
                 ELSE pc' = AfterNotification /\ UNCHANGED stop_logged
    /\ Unslept /\ Configured /\ UNCHANGED escaped

\* lines 131-132, then line 136
TickStillOut ==
    /\ pc = "check" /\ ticks < MaxTicks
    /\ \E f \in Fetches :
          LET res == check_stock(f, bs4_legacy)
          IN  /\ TickBranch(res) = "still_out"
              /\ Fetched(f, res)
    /\ outcome' = "not_in_stock"
    /\ pc' = "sleep"
    /\ Unnotified /\ Unslept /\ Configured /\ UNCHANGED <<stop_logged, escaped>>

\* lines 133-134, then line 136
TickCheckFailed ==
    /\ pc = "check" /\ ticks < MaxTicks
    /\ \E f \in Fetches :
          LET res == check_stock(f, bs4_legacy)
          IN  /\ TickBranch(res) = "check_failed"
              /\ Fetched(f, res)
    /\ outcome' = "check_failed"
    /\ pc' = "sleep"
    /\ Unnotified /\ Unslept /\ Configured /\ UNCHANGED <<stop_logged, escaped>>

\* lines 141-142: check_stock raised something that is no RequestException
TickUnexpected ==
    /\ pc = "check" /\ ticks < MaxTicks
    /\ \E f \in Fetches :
          LET res == check_stock(f, bs4_legacy)
          IN  /\ TickBranch(res) = "unexpected"
              /\ Fetched(f, res)
    /\ outcome' = "unexpected"
    /\ pc' = AfterUnexpected
    /\ Unnotified /\ Unslept /\ Configured /\ UNCHANGED <<stop_logged, escaped>>

\* lines 138-140: KeyboardInterrupt during check_stock
TickInterrupted ==
    /\ pc = "check" /\ ticks < MaxTicks
    /\ \E f \in Fetches :
          LET res == check_stock(f, bs4_legacy)
          IN  /\ TickBranch(res) = "interrupted"
              /\ Fetched(f, res)
    /\ outcome' = "interrupted"
    /\ stop_logged' = TRUE
    /\ pc' = "done"
    /\ Unnotified /\ Unslept /\ Configured /\ UNCHANGED escaped

-----------------------------------------------------------------------------
(* The two time.sleep calls *)

Untouched == UNCHANGED <<page, result, ticks, gets, instock_ticks>>

Slept ==
    /\ sleeps' = sleeps + 1
    /\ sleeps_since_get' = sleeps_since_get + 1
    /\ last_sleep' = <<check_interval>>

\* line 136 returns
SleepReturns ==
    /\ pc = "sleep"
    /\ ~SleepRaisesFor(check_interval)
    /\ Slept
    /\ pc' = "check"
    /\ Untouched /\ Unnotified /\ Configured /\ UNCHANGED <<outcome, stop_logged, escaped>>

\* line 136 raises: except Exception (lines 141-143)
SleepRaises ==
    /\ pc = "sleep"
    /\ SleepRaisesFor(check_interval)
    /\ pc' = AfterUnexpected
    /\ Untouched /\ Unnotified /\ Unslept /\ Configured
    /\ UNCHANGED <<sleeps_since_get, outcome, stop_logged, escaped>>

\* KeyboardInterrupt during line 136: except KeyboardInterrupt (lines 138-140)
SleepInterrupted ==
    /\ pc = "sleep"
    /\ outcome' = "interrupted"
    /\ stop_logged' = TRUE
    /\ pc' = "done"
    /\ Untouched /\ Unnotified /\ Unslept /\ Configured
    /\ UNCHANGED <<sleeps_since_get, escaped>>

\* line 143 returns
ErrSleepReturns ==
    /\ pc = "errsleep"
    /\ ~SleepRaisesFor(check_interval)
    /\ Slept
    /\ pc' = "check"
    /\ Untouched /\ Unnotified /\ Configured /\ UNCHANGED <<outcome, stop_logged, escaped>>

\* line 143 raises inside the except clause: nothing catches it
ErrSleepRaises ==
    /\ pc = "errsleep"
    /\ SleepRaisesFor(check_interval)
    /\ escaped' = "ValueError"
    /\ pc' = "done"
    /\ Untouched /\ Unnotified /\ Unslept /\ Configured
    /\ UNCHANGED <<sleeps_since_get, outcome, stop_logged>>

\* KeyboardInterrupt during line 143: the try statement's except clauses do
\* not cover its own handlers
ErrSleepInterrupted ==
    /\ pc = "errsleep"
    /\ escaped' = "KeyboardInterrupt"
    /\ outcome' = "interrupted"
    /\ pc' = "done"
    /\ Untouched /\ Unnotified /\ Unslept /\ Configured
    /\ UNCHANGED <<sleeps_since_get, stop_logged>>

Next ==
    \/ Main
    \/ TickInStock
    \/ TickStillOut
    \/ TickCheckFailed
    \/ TickUnexpected
    \/ TickInterrupted
    \/ SleepReturns
    \/ SleepRaises
    \/ SleepInterrupted
    \/ ErrSleepReturns
    \/ ErrSleepRaises
    \/ ErrSleepInterrupted

Spec == Init /\ [][Next]_vars

-----------------------------------------------------------------------------
(* The classifier on its own: check_stock on every page of at most          *)
(* MaxButtons buttons, fetched with status 200                              *)

InitClassify ==
    /\ env = EmptyEnv
    /\ bs4_legacy \in BOOLEAN
    /\ pc = "classify"
    /\ config = <<>>
    /\ email_config = NoneConfig
    /\ check_interval = MonitorDefaultInterval
    /\ page \in PagesUpTo(MaxButtons)
    /\ result = NoResult
    /\ outcome = "none"
    /\ ticks = 0
    /\ gets = 0
    /\ sleeps = 0
    /\ sleeps_since_get = 0
    /\ last_sleep = <<>>
    /\ instock_ticks = 0
    /\ notifications = 0
    /\ note = NoNote
    /\ smtp = <<>>
    /\ emails_sent = 0
    /\ console_alerts = 0
    /\ stop_logged = FALSE
    /\ escaped = "none"

ClassifyPage ==
    /\ pc = "classify"
    /\ result' = check_stock(Response(200, page, FALSE), bs4_legacy)
    /\ gets' = gets + 1
    /\ pc' = "classified"
    /\ UNCHANGED <<env, bs4_legacy, config, email_config, check_interval, page, outcome,
                   ticks, sleeps, sleeps_since_get, last_sleep, instock_ticks,
                   notifications, note, smtp, emails_sent, console_alerts, stop_logged,
                   escaped>>

SpecClassify == InitClassify /\ [][ClassifyPage]_vars

-----------------------------------------------------------------------------
(* Claims about the classifier, checked under SpecClassify *)

\* The ordered reference of the specification, rule by rule
RefPrimary(pg) ==
    \E i \in 1..Len(pg) :
        /\ CartTok \in pg[i].cls /\ SecondaryTok \in pg[i].cls
        /\ pg[i].type = "button"
        /\ strip(get_text(pg[i])) = <<AddToCart>>

RefOutOfStock(pg) ==
    \E i \in 1..Len(pg) :
        /\ pg[i].disabled # Absent
        /\ \/ CartTok \in pg[i].cls /\ DisabledTok \in pg[i].cls
           \/ TagString(pg[i]) = <<Unavailable>>

RefFallback(pg) ==
    \E i \in 1..Len(pg) :
        /\ TagString(pg[i]) = <<AddToCart>>
        /\ pg[i].disabled = Absent

RefVerdict(pg) ==
    IF RefPrimary(pg) THEN TRUE
    ELSE IF RefOutOfStock(pg) THEN FALSE
    ELSE RefFallback(pg)

\* C3: for every fetched page, check_stock's verdict is the verdict of the
\* ordered first-match-wins reference: primary in-stock button, else a
\* disabled out-of-stock or 'Unavailable' button, else the fallback, else
\* not in stock.
C3_VerdictIsReference ==
    pc = "classified" => result.in_stock = RefVerdict(page)

\* C4: when rules 1 and 2 do not match, the verdict is in-stock exactly when
\* some button has the text 'Add to Cart' and no disabled attribute,
\* whatever the attribute's value and wherever the button stands.
C4_FallbackIffEnabledButton ==
    (pc = "classified" /\ result.reason \in {"in-stock-fallback", "unknown"})
        => (result.in_stock <=> RefFallback(page))

-----------------------------------------------------------------------------
(* Claims about the loop driver, the notifier and the configuration,         *)
(* checked under Spec                                                        *)

\* C1: send_notification is invoked at most once in a run, exactly at the
\* first tick whose fetch succeeded with an in-stock verdict, and after the
\* invocation the driver is done: no further check_stock call, sleep or
\* notification.
C1_NotifiesOnceThenDone ==
    /\ [](/\ notifications = instock_ticks
          /\ notifications <= 1
          /\ (notifications = 1 => pc = "done"))
    /\ [][notifications >= 1 =>
            /\ gets' = gets /\ ticks' = ticks /\ sleeps' = sleeps
            /\ notifications' = notifications]_vars

\* A run whose first tick found no stock and whose second tick found it
C1_Witness ==
    /\ pc = "done" /\ notifications = 1 /\ ticks = 2 /\ sleeps = 1
    /\ outcome = "in_stock"

\* C2: a tick whose fetch fails or whose parsing raises invokes no
\* notification, leaves the driver polling, and is followed by exactly one
\* sleep of the configured interval and the next tick.
C2_FailedTickSleepsAndRetries ==
    outcome \in {"check_failed", "unexpected"} =>
        /\ notifications = 0
        /\ escaped = "none"
        /\ pc \in {"sleep", "errsleep", "check"}
        /\ (pc = "check" => sleeps_since_get = 1 /\ last_sleep = <<check_interval>>)

C6_InterruptHandledInMonitor ==
    outcome = "interrupted" =>
        /\ pc = "done"
        /\ notifications = 0
        /\ stop_logged
        /\ escaped = "none"

\* C7: with PRODUCT_URL missing or empty main() returns before the monitor
\* exists: no GET, no sleep, no notification; and main() never fails on the
\* length of load_config's tuple.
C7_MissingUrlStopsBeforeLoop ==
    /\ escaped # "ValueError(unpack)"
    /\ (pc # "main" /\ Len(config) > 0) =>
          IF Missing(env["PRODUCT_URL"])
          THEN /\ pc = "done" /\ Len(config) = 2
               /\ ticks = 0 /\ gets = 0 /\ sleeps = 0 /\ notifications = 0
               /\ smtp = <<>> /\ console_alerts = 0 /\ escaped = "none"
          ELSE Len(config) = 3

\* main() has returned on an empty PRODUCT_URL
C7_Witness ==
    /\ pc = "done" /\ Len(config) = 2 /\ env["PRODUCT_URL"] = <<>>
    /\ gets = 0

\* The text of an integer: optional sign and digits, blanks around allowed
IntegerText(text) ==
    LET t == strip(text)
        body == IF t # <<>> /\ Head(t) \in {"+", "-"} THEN Tail(t) ELSE t
    IN  body # <<>> /\ \A i \in 1..Len(body) : IsDigit(body[i])

\* Email is fully configured: the flag (default 'true', compared without
\* case) is 'true', the five variables are set and SMTP_PORT is an integer
FullyConfigured(e) ==
    /\ \/ e["EMAIL_NOTIFICATIONS"] = Unset
       \/ lower(e["EMAIL_NOTIFICATIONS"]) = <<"t", "r", "u", "e">>
    /\ \A v \in EmailVars : e[v] # Unset /\ e[v] # <<>>
    /\ IntegerText(e["SMTP_PORT"])

\* C8: unless email is fully configured load_config yields no email config
\* and a positive detection opens no SMTP session and prints to the console;
\* when it is, a positive detection opens exactly one SMTP session, with
\* STARTTLS, login and a single send in that order.
C8_EmailOnlyWhenConfigured ==
    Len(config) = 3 =>
        IF FullyConfigured(env)
        THEN /\ config[2].kind = "dict"
             /\ notifications >= 1 =>
                   /\ Len(smtp) >= 1 /\ Len(smtp) <= Len(SmtpSteps)
                   /\ smtp = SubSeq(SmtpSteps, 1, Len(smtp))
                   /\ emails_sent <= 1
                   /\ (emails_sent = 1 => Len(smtp) >= 4)
        ELSE /\ config[2] = NoneConfig
             /\ notifications >= 1 =>
                   /\ smtp = <<>> /\ emails_sent = 0
                   /\ console_alerts = notifications

\* A fully configured run whose detection went through one whole session
C8_Witness ==
    /\ Len(config) = 3 /\ FullyConfigured(env)
    /\ notifications = 1
    /\ smtp = SmtpSteps /\ emails_sent = 1 /\ console_alerts = 0

\* C9: every tick issues exactly one GET, and between two consecutive GETs
\* the driver sleeps exactly once, for the configured interval, whatever
\* ended the previous tick.
C9_OneGetOneSleep ==
    /\ gets = ticks
    /\ sleeps_since_get <= 1
    /\ (pc = "check" /\ gets >= 1) =>
          /\ sleeps_since_get = 1
          /\ last_sleep = <<check_interval>>

\* The driver is about to tick again after a tick that raised
C9_Witness ==
    /\ pc = "check" /\ gets = 2 /\ sleeps = 2
    /\ outcome = "unexpected" /\ sleeps_since_get = 1

\* C10: started by main(), monitor() ends only by the in-stock break or by
\* an operator interrupt; no other exception escapes it, whatever integer
\* load_config parsed from CHECK_INTERVAL.
C10_OnlyInterruptEscapes ==
    (Len(config) = 3 /\ pc = "done" /\ ticks >= 1) =>
        /\ escaped \in {"none", "KeyboardInterrupt"}
        /\ outcome \in {"in_stock", "interrupted"}

====
